---- MODULE Spec2Model ----
(***************************************************************************)
(* Model of cmd/drasov-cz-news-scraper/main.go: the date parser            *)
(* (StringDateToTime), the date filter (News.SinceIncluding), the          *)
(* formatter (NewsEntry.String, News.String) and the two-collector scrape  *)
(* (ScrapeNewsEntries) followed by main's filtering and printing.          *)
(*                                                                         *)
(* Texts that the code takes apart (date texts) are sequences of           *)
(* one-character strings.  A time.Time is always a midnight UTC instant    *)
(* here (lines 80 and 107), so it is modelled by its day number: the       *)
(* number of days since 0001-01-01 of the proleptic Gregorian calendar.    *)
(***************************************************************************)
EXTENDS Integers, Sequences, FiniteSets, TLC

VARIABLES
  \* ---- the scrape pipeline (ScrapeNewsEntries + main) ----
  pc,        \* position of the main goroutine
  sinceDate, \* main.go:196, the cutoff computed from --days
  items,     \* the .c-office-board__content-item nodes iterated so far
  cur,       \* the newsEntry under construction (line 148)
  news,      \* main.go:114, map from URL to entry
  visited,   \* the detailsCollector's store of visited URLs
  reqs,      \* the detail requests issued, by URL
  abort,     \* why the process panicked, "" while it has not
  result,    \* what ScrapeNewsEntries returned (line 189)
  filtered,  \* news.SinceIncluding(sinceDate) (line 203)
  output,    \* what fmt.Println wrote (line 203)
  \* ---- StringDateToTime and the date layout, on their own ----
  dpc, dIn, dSrc, dRes, dFmt,
  \* ---- News.SinceIncluding, on its own ----
  fpc, fIn, fIn0, fCut, fOut

pipeVars == <<pc, sinceDate, items, cur, news, visited, reqs, abort, result,
              filtered, output>>
dateVars == <<dpc, dIn, dSrc, dRes, dFmt>>
filtVars == <<fpc, fIn, fIn0, fCut, fOut>>
vars == <<pipeVars, dateVars, filtVars>>

(***************************************************************************)
(* Bounds of the model.                                                    *)
(***************************************************************************)
MaxItems == 2       \* listing items iterated in one run
MaxDateFields == 3  \* .c-office-board__col-date nodes of one item
MaxFiles == 3       \* .c-files-wrapper nodes of one detail page
MaxEntries == 3     \* length of the sequences given to SinceIncluding

(***************************************************************************)
(* Characters and decimal numerals.                                        *)
(***************************************************************************)
DigitChars == <<"0", "1", "2", "3", "4", "5", "6", "7", "8", "9">>
Digits == {DigitChars[i] : i \in 1..10}
DigitVal(c) == (CHOOSE i \in 1..10 : DigitChars[i] = c) - 1
\* unicode.IsSpace, the test strings.TrimSpace applies to each character:
\* '\t' '\n' '\v' '\f' '\r' ' ' U+0085 U+00A0 and the White_Space code points
\* above Latin-1.  The ones without an escape are written as themselves; the
\* White_Space code points from U+2000 up (U+2000..U+200A, U+2028, U+2029,
\* U+202F, U+205F, U+3000) cannot be written in a string of a module, so no
\* text of the model holds one.
VT == ""
NEL == ""
NBSP == " "
OghamSpace == " "
WhiteSpace == {"\t", "\n", VT, "\f", "\r", " ", NEL, NBSP, OghamSpace}
IsSpace(c) == c \in WhiteSpace

RECURSIVE Itoa(_)
\* decimal numeral of n >= 0, as fmt and time.appendInt write it
Itoa(n) == IF n < 10 THEN <<DigitChars[n + 1]>>
           ELSE Itoa(n \div 10) \o <<DigitChars[(n % 10) + 1]>>

RECURSIVE ZeroPad(_, _)
\* time.appendInt(b, x, width) for x >= 0: the numeral, zero-padded
ZeroPad(s, width) == IF Len(s) >= width THEN s ELSE ZeroPad(<<"0">> \o s, width)

(***************************************************************************)
(* strings.Split(date, "."), strings.TrimSpace, strconv.Atoi.              *)
(***************************************************************************)
RECURSIVE Split(_, _)
Split(s, sep) ==
  IF \E i \in 1..Len(s) : s[i] = sep
  THEN LET i == CHOOSE k \in 1..Len(s) :
                   s[k] = sep /\ \A j \in 1..(k - 1) : s[j] # sep
       IN  <<SubSeq(s, 1, i - 1)>> \o Split(SubSeq(s, i + 1, Len(s)), sep)
  ELSE <<s>>

RECURSIVE TrimLeft(_)
TrimLeft(s) == IF s # <<>> /\ IsSpace(s[1]) THEN TrimLeft(Tail(s)) ELSE s
RECURSIVE TrimRight(_)
TrimRight(s) == IF s # <<>> /\ IsSpace(s[Len(s)])
                THEN TrimRight(SubSeq(s, 1, Len(s) - 1)) ELSE s
TrimSpace(s) == TrimRight(TrimLeft(s))

RECURSIVE DigitsValue(_, _)
DigitsValue(s, acc) == IF s = <<>> THEN acc
                       ELSE DigitsValue(Tail(s), acc * 10 + DigitVal(s[1]))

\* strconv.Atoi on a text shorter than 19 bytes: an optional sign, then one
\* or more digits.  [err, n]
Atoi(s) ==
  LET signed == s # <<>> /\ s[1] \in {"+", "-"}
      body   == IF signed THEN Tail(s) ELSE s
  IN  IF body = <<>> \/ \E i \in 1..Len(body) : body[i] \notin Digits
      THEN [err |-> TRUE, n |-> 0]
      ELSE [err |-> FALSE,
            n   |-> IF signed /\ s[1] = "-" THEN 0 - DigitsValue(body, 0)
                    ELSE DigitsValue(body, 0)]

(***************************************************************************)
(* time.Date(year, month, day, 0, 0, 0, 0, time.UTC) and the fields of a   *)
(* time.Time, as the standard library computes them.                       *)
(***************************************************************************)
\* a nil *time.Time: a value no day number of the model takes
NilTime == -999999999

isLeap(year) == year % 4 = 0 /\ (year % 100 # 0 \/ year % 400 = 0)
daysBefore == <<0, 31, 59, 90, 120, 151, 181, 212, 243, 273, 304, 334, 365>>

\* days from 0001-01-01 to January 1 of year
daysSinceEpoch(year) ==
  LET y == year - 1
  IN  365 * y + (y \div 4) - (y \div 100) + (y \div 400)

\* time.Date: a month outside 1..12 overflows into the year, a day outside
\* the month overflows into the neighbouring months.
Date(year, month, day) ==
  LET m0 == month - 1
      y  == year + (m0 \div 12)
      m  == (m0 % 12) + 1
  IN  daysSinceEpoch(y) + daysBefore[m]
        + (IF isLeap(y) /\ m >= 3 THEN 1 ELSE 0) + (day - 1)

\* time.absDate: year, month, day and day of the year of a day number
absDate(abs) ==
  LET n400 == abs \div 146097
      d1   == abs - 146097 * n400
      n100a == d1 \div 36524
      n100 == n100a - (n100a \div 4)
      d2   == d1 - 36524 * n100
      n4   == d2 \div 1461
      d3   == d2 - 1461 * n4
      n1a  == d3 \div 365
      n1   == n1a - (n1a \div 4)
      yday == d3 - 365 * n1
      year == 400 * n400 + 100 * n100 + 4 * n4 + n1 + 1
      leapFeb29 == isLeap(year) /\ yday = 31 + 29 - 1
      dd   == IF isLeap(year) /\ yday > 31 + 29 - 1 THEN yday - 1 ELSE yday
      mg   == dd \div 31
      over == dd >= daysBefore[mg + 2]
      mon  == IF over THEN mg + 2 ELSE mg + 1
      begin == IF over THEN daysBefore[mg + 2] ELSE daysBefore[mg + 1]
  IN  IF leapFeb29 THEN [year |-> year, month |-> 2, day |-> 29]
      ELSE [year |-> year, month |-> mon, day |-> dd - begin + 1]

shortDayNames == <<"Sun", "Mon", "Tue", "Wed", "Thu", "Fri", "Sat">>
\* Time.Weekday: 0001-01-01 is a Monday
Weekday(abs) == (abs + 1) % 7

\* the layout "2.1.2006" in place of "02.01.2006": no zero padding
FormatDMYUnpadded(abs) ==
  LET f == absDate(abs)
  IN  Itoa(f.day) \o <<".">> \o Itoa(f.month) \o <<".">> \o Itoa(f.year)

\* t.Format("02.01.2006"): zero-padded day, month and four-digit year
FormatDMY(abs) ==
  LET f == absDate(abs)
  IN  ZeroPad(Itoa(f.day), 2) \o <<".">> \o ZeroPad(Itoa(f.month), 2)
        \o <<".">> \o ZeroPad(Itoa(f.year), 4)

\* t.Format("Mon 02.01.2006") of lines 40-41: the weekday name, a space,
\* and the date
FormatTime(abs) == <<shortDayNames[Weekday(abs) + 1], " ">> \o FormatDMY(abs)

(***************************************************************************)
(* StringDateToTime (lines 84-109): [err, t], t = NilTime on an error.     *)
(***************************************************************************)
\* the parser with the test of line 88 weakened to len(parts) < 3
StringDateToTimeAtLeast3(date) ==
  LET parts == Split(date, ".")
  IN  IF Len(parts) < 3 THEN [err |-> TRUE, t |-> NilTime]
      ELSE LET day   == Atoi(TrimSpace(parts[1]))
               month == Atoi(TrimSpace(parts[2]))
               year  == Atoi(TrimSpace(parts[3]))
           IN  IF day.err \/ month.err \/ year.err
               THEN [err |-> TRUE, t |-> NilTime]
               ELSE [err |-> FALSE, t |-> Date(year.n, month.n, day.n)]

StringDateToTime(date) ==
  LET parts == Split(date, ".")
  IN  IF Len(parts) # 3 THEN [err |-> TRUE, t |-> NilTime]
      ELSE LET day   == Atoi(TrimSpace(parts[1]))
               month == Atoi(TrimSpace(parts[2]))
               year  == Atoi(TrimSpace(parts[3]))
           IN  IF day.err \/ month.err \/ year.err
               THEN [err |-> TRUE, t |-> NilTime]
               ELSE [err |-> FALSE, t |-> Date(year.n, month.n, day.n)]

(***************************************************************************)
(* News.SinceIncluding (lines 55-63).  An entry is the record of a         *)
(* NewsEntry; a News is a sequence of them.  Dereferencing a nil           *)
(* PublishedOn (line 58) panics.  [panic, news]                            *)
(***************************************************************************)
After(t, u) == t > u     \* Time.After on midnight UTC instants
Equal(t, u) == t = u     \* Time.Equal

RECURSIVE SinceIncludingFrom(_, _, _)
SinceIncludingFrom(n, t, acc) ==
  IF n = <<>> THEN [panic |-> FALSE, news |-> acc]
  ELSE IF Head(n).PublishedOn = NilTime THEN [panic |-> TRUE, news |-> <<>>]
  ELSE IF After(Head(n).PublishedOn, t) \/ Equal(Head(n).PublishedOn, t)
       THEN SinceIncludingFrom(Tail(n), t, Append(acc, Head(n)))
       ELSE SinceIncludingFrom(Tail(n), t, acc)

RECURSIVE SinceExcludingFrom(_, _, _)
\* the filter with the Equal disjunct of line 58 lost
SinceExcludingFrom(n, t, acc) ==
  IF n = <<>> THEN [panic |-> FALSE, news |-> acc]
  ELSE IF Head(n).PublishedOn = NilTime THEN [panic |-> TRUE, news |-> <<>>]
  ELSE IF After(Head(n).PublishedOn, t)
       THEN SinceExcludingFrom(Tail(n), t, Append(acc, Head(n)))
       ELSE SinceExcludingFrom(Tail(n), t, acc)
SinceIncludingStrict(n, t) == SinceExcludingFrom(n, t, <<>>)

SinceIncluding(n, t) == SinceIncludingFrom(n, t, <<>>)

(***************************************************************************)
(* NewsEntry.String (lines 37-50) and News.String (lines 66-75): the       *)
(* lines written, each a pair of its label and its value.  Formatting a    *)
(* nil PublishedOn or PublishedUntil panics.  [panic, lines]               *)
(***************************************************************************)
AttachmentString(a) == <<a.Filename, ": ", a.URL>>

NewsEntryString(n) ==
  IF n.PublishedOn = NilTime \/ n.PublishedUntil = NilTime
  THEN [panic |-> TRUE, lines |-> <<>>]
  ELSE [panic |-> FALSE,
        lines |-> << <<"Title: ", n.Title>>,
                     <<"Published on: ", FormatTime(n.PublishedOn)>>,
                     <<"Published until: ", FormatTime(n.PublishedUntil)>>,
                     <<"URL: ", n.EntryURL>> >>
                  \o (IF Len(n.Attachments) > 0
                      THEN << <<"Attachments:">> >>
                           \o [i \in 1..Len(n.Attachments) |->
                                 <<"  ", AttachmentString(n.Attachments[i])>>]
                      ELSE <<>>)]

RECURSIVE NewsStringFrom(_, _)
NewsStringFrom(n, acc) ==
  IF n = <<>> THEN [panic |-> FALSE, lines |-> acc]
  ELSE LET s == NewsEntryString(Head(n))
       IN  IF s.panic THEN [panic |-> TRUE, lines |-> <<>>]
           ELSE NewsStringFrom(Tail(n),
                  acc \o s.lines \o (IF Len(n) > 1 THEN << <<"">> >> ELSE <<>>))
NewsString(n) == NewsStringFrom(n, <<>>)

\* what fmt.Println writes for a News (line 203): fmt recovers a panic of
\* the String method and writes its own notice of it instead
PanicNotice == << <<"%!v(PANIC=String method: runtime error: invalid memory address or nil pointer dereference)">> >>
Println(n) == IF NewsString(n).panic THEN PanicNotice ELSE NewsString(n).lines

(***************************************************************************)
(* Idle values: the parts of the state a specification does not use.       *)
(***************************************************************************)
NoSrc == [d |-> 0, m |-> 0, y |-> 0]   \* a text not made from a D, M, YYYY
NoEntry == [PublishedOn |-> NilTime, PublishedUntil |-> NilTime, Title |-> "",
            EntryURL |-> <<>>, Attachments |-> <<>>]
PipeIdle == /\ pc = "idle" /\ sinceDate = 0 /\ items = <<>> /\ cur = NoEntry
            /\ news = <<>> /\ visited = {} /\ reqs = <<>> /\ abort = ""
            /\ result = <<>> /\ filtered = <<>> /\ output = <<>>
DateIdle == /\ dpc = "idle" /\ dIn = <<>> /\ dSrc = NoSrc
            /\ dRes = [err |-> FALSE, t |-> NilTime] /\ dFmt = <<>>
FiltIdle == /\ fpc = "idle" /\ fIn = <<>> /\ fIn0 = <<>> /\ fCut = 0
            /\ fOut = [panic |-> FALSE, news |-> <<>>]

(***************************************************************************)
(* StringDateToTime and the date layout on bounded inputs.                 *)
(***************************************************************************)
MaxParts == 4   \* components of a generated date text

Years == {1900, 2000, 2021, 2023, 2024}
\* "D. M. YYYY", the form of line 85
DateText(d, m, y) == Itoa(d) \o <<".", " ">> \o Itoa(m) \o <<".", " ">> \o Itoa(y)

\* components padded with every kind of white space the module can write,
\* with white space inside, signed, not a number, and empty
Components == { <<"1">>, <<"\f", "1", "2", NBSP>>, <<" ", "2", "0", "2", "1">>,
                <<"a">>, <<>>, <<"+", "3">>, <<"1", " ", "2">>,
                <<VT, "\t", "3", NEL, OghamSpace>> }
RECURSIVE Join(_)
Join(ps) == IF Len(ps) = 1 THEN ps[1] ELSE ps[1] \o <<".">> \o Join(Tail(ps))
JoinedTexts == UNION { {Join(ps) : ps \in [1..k -> Components]} : k \in 1..MaxParts }
NamedTexts == { <<"1", "2", "/", "1", "/", "2", "0", "2", "1">>,
                <<"1", ".", " ", "2", "0", "2", "1">>,
                <<"a", ".", " ", "1", ".", " ", "2", "0", "2", "1">> }

DateInit ==
  /\ PipeIdle /\ FiltIdle
  /\ dpc = "in" /\ dRes = [err |-> FALSE, t |-> NilTime] /\ dFmt = <<>>
  /\ \/ \E d \in 1..31, m \in 1..12, y \in Years :
          dIn = DateText(d, m, y) /\ dSrc = [d |-> d, m |-> m, y |-> y]
     \/ dIn \in JoinedTexts \cup NamedTexts /\ dSrc = NoSrc

DateParse ==
  /\ dpc = "in"
  /\ dRes' = StringDateToTime(dIn)
  /\ dpc' = "parsed"
  /\ UNCHANGED <<dIn, dSrc, dFmt, pipeVars, filtVars>>

DateFormat ==
  /\ dpc = "parsed" /\ ~dRes.err
  /\ dFmt' = FormatTime(dRes.t)
  /\ dpc' = "formatted"
  /\ UNCHANGED <<dIn, dSrc, dRes, pipeVars, filtVars>>

DateNext == DateParse \/ DateFormat
SpecDate == DateInit /\ [][DateNext]_vars

(***************************************************************************)
(* News.SinceIncluding on bounded inputs.                                  *)
(***************************************************************************)
FilterDays == {Date(2024, 1, 1), Date(2024, 1, 14), Date(2024, 1, 15),
               Date(2024, 1, 16), Date(2024, 2, 1)}
FilterCutoffs == {Date(2024, 1, 15), Date(2024, 1, 16)}
FilterEntries == [PublishedOn : FilterDays \cup {NilTime},
                  PublishedUntil : {Date(2024, 3, 1)},
                  Title : {"a", "b"}, EntryURL : {<<"https://www.drasov.cz", "/", "x">>},
                  Attachments : {<<>>}]

FilterInit ==
  /\ PipeIdle /\ DateIdle
  /\ fpc = "in" /\ fOut = [panic |-> FALSE, news |-> <<>>]
  /\ fIn \in UNION { [1..k -> FilterEntries] : k \in 0..MaxEntries }
  /\ fIn0 = fIn
  /\ fCut \in FilterCutoffs

Filter ==
  /\ fpc = "in"
  /\ fOut' = SinceIncluding(fIn, fCut)
  /\ fpc' = IF fOut'.panic THEN "panic" ELSE "done"
  /\ UNCHANGED <<fIn, fIn0, fCut, pipeVars, dateVars>>

FilterNext == Filter
SpecFilter == FilterInit /\ [][FilterNext]_vars

(***************************************************************************)
(* ScrapeNewsEntries (lines 112-190) and main (lines 192-204).             *)
(*                                                                         *)
(* Both collectors are made by colly.NewCollector(allowedDomains) with no  *)
(* colly.Async option (lines 118, 139), so Visit fetches the page and runs *)
(* the OnHTML callbacks on the calling goroutine before it returns, and    *)
(* returns the error of a failed fetch.  A collector refuses a URL it has  *)
(* visited before (no AllowURLRevisit): the second Visit of a URL returns  *)
(* an error without fetching.  Wait returns when no fetch is outstanding.  *)
(* A collector parses the URL given to Visit and follows redirects within  *)
(* the allowed domain, so the URL a callback reads from e.Request.URL is   *)
(* the parsed URL written back, or the one the last redirect led to.       *)
(***************************************************************************)
\* the collectors made with colly.Async(true)
AsyncOn == TRUE
\* lines 118, 139: no colly.Async option
Async == FALSE

\* An href is the sequence of its characters; a URL of the site is the
\* sequence of its origin, kept whole, and the characters of its path.
\* The href values of the listing's anchors: two plain paths, one with a
\* space and an escaped letter in it, and one with a broken escape.
Hrefs == { <<"/", "a">>, <<"/", "b">>, <<"/", "a", " ", "%", "6", "2">>,
           <<"/", "%">> }
Origin == "https://www.drasov.cz"    \* lines 116 and 169
\* line 169
EntryURLOf(href) == <<Origin>> \o href

(***************************************************************************)
(* Request.URL.String() (line 125), as net/url computes it for the path of *)
(* a URL: url.Parse keeps the decoded path (Path) and, when the path does  *)
(* not read as its own default encoding, the path as written (RawPath);    *)
(* String writes RawPath back if it is a valid encoding and else the       *)
(* default encoding of Path.  A decoded path is a sequence of byte values. *)
(* The paths of the model are made of the printable ASCII characters other *)
(* than "?" and "#", which end a path, and the grave accent.               *)
(***************************************************************************)
\* the characters of the codes 32 to 126; the grave accent (code 96), which
\* a string of a module cannot hold, is left as a name no character equals
Ascii == << " ", "!", "\"", "#", "$", "%", "&", "'", "(", ")", "*", "+", ",",
            "-", ".", "/", "0", "1", "2", "3", "4", "5", "6", "7", "8", "9",
            ":", ";", "<", "=", ">", "?", "@", "A", "B", "C", "D", "E", "F",
            "G", "H", "I", "J", "K", "L", "M", "N", "O", "P", "Q", "R", "S",
            "T", "U", "V", "W", "X", "Y", "Z", "[", "\\", "]", "^", "_",
            "grave", "a", "b", "c", "d", "e", "f", "g", "h", "i", "j", "k",
            "l", "m", "n", "o", "p", "q", "r", "s", "t", "u", "v", "w", "x",
            "y", "z", "{", "|", "}", "~" >>
Code(c) == 31 + (CHOOSE i \in 1..Len(Ascii) : Ascii[i] = c)
upperhex == <<"0", "1", "2", "3", "4", "5", "6", "7", "8", "9",
              "A", "B", "C", "D", "E", "F">>
lowerhex == <<"0", "1", "2", "3", "4", "5", "6", "7", "8", "9",
              "a", "b", "c", "d", "e", "f">>
ishex(c) == \E i \in 1..16 : upperhex[i] = c \/ lowerhex[i] = c
unhex(c) == (CHOOSE i \in 1..16 : upperhex[i] = c \/ lowerhex[i] = c) - 1

RECURSIVE unescape(_)
\* url.unescape(s, encodePath): [err, bytes]; a "%" not followed by two
\* hexadecimal digits is an error
unescape(s) ==
  IF s = <<>> THEN [err |-> FALSE, bytes |-> <<>>]
  ELSE IF s[1] = "%"
  THEN IF Len(s) < 3 \/ ~ishex(s[2]) \/ ~ishex(s[3])
       THEN [err |-> TRUE, bytes |-> <<>>]
       ELSE LET rest == unescape(SubSeq(s, 4, Len(s)))
            IN  [err   |-> rest.err,
                 bytes |-> <<16 * unhex(s[2]) + unhex(s[3])>> \o rest.bytes]
  ELSE LET rest == unescape(Tail(s))
       IN  [err |-> rest.err, bytes |-> <<Code(s[1])>> \o rest.bytes]

\* url.shouldEscape(c, encodePath) on a byte value
shouldEscape(b) ==
  ~ \/ b \in 48..57 \/ b \in 65..90 \/ b \in 97..122
    \/ \E c \in {"-", "_", ".", "~", "$", "&", "+", ",", "/", ":", ";", "=", "@"} :
         b = Code(c)

RECURSIVE escape(_)
\* url.escape(s, encodePath)
escape(bytes) ==
  IF bytes = <<>> THEN <<>>
  ELSE (IF shouldEscape(bytes[1])
        THEN <<"%", upperhex[(bytes[1] \div 16) + 1], upperhex[(bytes[1] % 16) + 1]>>
        ELSE <<Ascii[bytes[1] - 31]>>)
         \o escape(Tail(bytes))

\* url.validEncoded(s, encodePath)
validEncoded(s) ==
  \A i \in 1..Len(s) :
    \/ s[i] \in {"!", "$", "&", "'", "(", ")", "*", "+", ",", ";", "=", ":", "@",
                 "[", "]", "%"}
    \/ ~shouldEscape(Code(s[i]))

\* URL.setPath on the path p as written: [err, Path, RawPath]
setPath(p) ==
  LET path == unescape(p)
  IN  [err     |-> path.err,
       Path    |-> path.bytes,
       RawPath |-> IF path.err \/ escape(path.bytes) = p THEN <<>> ELSE p]

\* URL.EscapedPath of the URL parsed from the path p as written
EscapedPath(p) ==
  LET u == setPath(p)
  IN  IF u.RawPath # <<>> /\ validEncoded(u.RawPath)
         /\ unescape(u.RawPath).bytes = u.Path
      THEN u.RawPath
      ELSE IF u.Path = <<Code("*")>> THEN <<"*">>
      ELSE escape(u.Path)

\* url.Parse fails on url (the origin followed by a path): Visit returns
\* the error
InvalidURL(url) == setPath(Tail(url)).err
\* Request.URL.String() of the request that Visit(url) makes, as long as no
\* redirect is followed
RequestURL(url) == <<Head(url)>> \o EscapedPath(Tail(url))

\* The URLs a detail request for url may be answered under: its own, or, the
\* collector following redirects, another URL of the allowed domain.
\* RequestURL, tabulated once over the URLs of the listing that parse
RequestURLs ==
  [u \in {v \in {EntryURLOf(h) : h \in Hrefs} : ~InvalidURL(v)} |-> RequestURL(u)]
    @@ <<>>
FinalURLs(url) == {RequestURLs[url]} \cup {RequestURLs[u] : u \in DOMAIN RequestURLs}

\* the second span of a .c-office-board__col-date node (line 152); NoSpan
\* stands for a node with fewer than two spans
NoSpan == <<"<", ">">>
GoodDateTexts == {DateText(15, 1, 2024)}
DateTexts == GoodDateTexts \cup {<<"x">>, NoSpan}
SinceDates == {Date(2024, 1, 10)}  \* NowDate().AddDate(0, 0, -days), line 196

\* The callback of line 151 on the idx-th date node (idx from 0): "" when
\* it returns, else the panic it raises.
DateNodePanic(text, idx) ==
  IF text = NoSpan THEN "index out of range"
  ELSE IF StringDateToTime(text).err THEN "error while parsing date"
  ELSE IF idx > 1 THEN "unexpected index"
  ELSE ""

\* lines 151-164 on the date nodes of one item: "" or the panic raised
DatesPanic(ds) ==
  LET bad == {i \in 1..Len(ds) : DateNodePanic(ds[i], i - 1) # ""}
  IN  IF bad = {} THEN ""
      ELSE DateNodePanic(ds[CHOOSE i \in bad : TRUE], (CHOOSE i \in bad : TRUE) - 1)

RECURSIVE DateSeqs(_)
\* the sequences of at most k date nodes none of which, but perhaps the
\* last, makes the callback panic
DateSeqs(k) ==
  IF k = 0 THEN {<<>>}
  ELSE LET prev == DateSeqs(k - 1)
       IN  prev \cup { Append(ds, t) :
                        ds \in {d \in prev : Len(d) = k - 1 /\ DatesPanic(d) = ""},
                        t \in DateTexts }
\* The date nodes of an item, as far as they are read: the nodes after one
\* whose callback panics are left out.
ItemDates == DateSeqs(MaxDateFields)

\* A listing item: the texts of its date nodes, its title and its href.
\* The anchor of an item whose date nodes panic is never read (lines
\* 167-171 come after) and its href is left empty.
Items == { it \in [dates : ItemDates, title : {"Notice"}, href : Hrefs \cup {<<>>}] :
             (it.href = <<>>) <=> (DatesPanic(it.dates) # "") }

\* lines 148-171 on one item: [panic, entry]
ParseItem(it) ==
  IF DatesPanic(it.dates) # ""
  THEN [panic |-> DatesPanic(it.dates), entry |-> NoEntry]
  ELSE [panic |-> "",
        entry |-> [PublishedOn |-> IF Len(it.dates) >= 1
                                   THEN StringDateToTime(it.dates[1]).t
                                   ELSE NilTime,
                   PublishedUntil |-> IF Len(it.dates) >= 2
                                      THEN StringDateToTime(it.dates[2]).t
                                      ELSE NilTime,
                   Title |-> it.title,
                   EntryURL |-> EntryURLOf(it.href),
                   Attachments |-> <<>>]]
\* ParseItem, tabulated once over the items of the model
Parsed == [it \in Items |-> ParseItem(it)] @@ <<>>

(***************************************************************************)
(* A detail page, as the two selectors of lines 124 and 131 see it: its n  *)
(* .c-files-wrapper nodes, numbered in document order, and its .c-card     *)
(* elements in document order, each with the wrappers below it.            *)
(***************************************************************************)
Range(a, b) == [i \in 1..(b - a + 1) |-> a + i - 1]
Layouts == {"one", "none", "two", "nested"}
\* "one": one .c-card holding every wrapper; "none": no .c-card, the
\* wrappers lie outside; "two": two sibling .c-card, the first holding no
\* wrapper, the second every wrapper; "nested": a .c-card holding every
\* wrapper and, within it, a .c-card holding the last
\* the pages of the model: one .c-card with MaxFiles wrappers, and each of
\* the other layouts with two wrappers
Pages == {[n |-> MaxFiles, layout |-> "one"]}
           \cup {[n |-> 2, layout |-> l] : l \in Layouts \ {"one"}}
CardsOf(pg) ==
  CASE pg.layout = "one"    -> <<Range(1, pg.n)>>
    [] pg.layout = "none"   -> <<>>
    [] pg.layout = "two"    -> <<Range(1, 0), Range(1, pg.n)>>
    [] pg.layout = "nested" -> <<Range(1, pg.n), Range(pg.n, pg.n)>>
NoPage == [n |-> 0, layout |-> "none"]

\* lines 132-135 on the k-th wrapper of the page that arrived under url
AttachmentOf(url, k) ==
  [Filename |-> "file" \o ToString(k), URL |-> url \o <<"/", "f">> \o Itoa(k)]

\* the attachment put in front of the list instead of behind it
PrependAttachment(atts, a) == <<a>> \o atts
\* line 132
AppendAttachment(atts, a) == Append(atts, a)

\* the entry kept under its title instead of its URL
EntryKeyTitle(n) == <<n.Title>>
\* line 173: the key an entry is kept under
EntryKey(n) == n.EntryURL

\* A detail request, kept under the URL given to Visit.  url is
\* Request.URL.String(), the URL its callbacks see; st is "fetching", then
\* "lookup" (line 125) and "append" (lines 131-136) for each .c-card in
\* turn, then "done"; "failed" when the fetch failed and "notfound" when a
\* lookup found no entry.  card and pos say where the callbacks are;
\* returned says that Visit has returned to its caller.
NewRequest == [st |-> "fetching", url |-> <<>>, page |-> NoPage, card |-> 1,
               pos |-> 1, returned |-> FALSE]

\* the request once the callbacks are at card c
AtCard(r, c) ==
  IF c > Len(CardsOf(r.page)) THEN [r EXCEPT !.st = "done", !.card = c, !.pos = 1]
  ELSE [r EXCEPT !.st = "lookup", !.card = c, !.pos = 1]

\* Visit returning while its callbacks have yet to run
CallbacksDoneEarly(r) == TRUE
\* a synchronous Visit returns once the OnHTML callbacks have all run
CallbacksDone(r) == r.st = "done"

Alive == pc \notin {"idle", "panic", "exit"}
Panic(why) == pc' = "panic" /\ abort' = why

Init ==
  /\ DateIdle /\ FiltIdle
  /\ pc = "start"
  /\ sinceDate \in SinceDates
  /\ items = <<>> /\ cur = NoEntry /\ news = <<>> /\ visited = {}
  /\ reqs = <<>> /\ abort = "" /\ result = <<>> /\ filtered = <<>>
  /\ output = <<>>

\* lines 181-184 and 198-201: the listing fetch fails, ScrapeNewsEntries
\* returns the error and main panics with it
ListingFetchFails ==
  /\ pc = "start"
  /\ Panic("listing fetch failed")
  /\ UNCHANGED <<sinceDate, items, cur, news, visited, reqs, result, filtered,
                 output, dateVars, filtVars>>

\* line 181: the listing page arrives and the callback of line 145 starts
ListingFetchOK ==
  /\ pc = "start"
  /\ pc' = "item"
  /\ UNCHANGED <<sinceDate, items, cur, news, visited, reqs, abort, result,
                 filtered, output, dateVars, filtVars>>

\* lines 147-171: the next item of the listing
ItemParse ==
  /\ pc = "item"
  /\ Len(items) < MaxItems
  /\ \E it \in Items :
       /\ items' = Append(items, it)
       /\ IF Parsed[it].panic # ""
          THEN Panic(Parsed[it].panic) /\ cur' = cur
          ELSE pc' = "insert" /\ cur' = Parsed[it].entry /\ abort' = abort
  /\ UNCHANGED <<sinceDate, news, visited, reqs, result, filtered, output,
                 dateVars, filtVars>>

\* line 173
ItemInsert ==
  /\ pc = "insert"
  /\ news' = (EntryKey(cur) :> cur) @@ news
  /\ pc' = "visit"
  /\ UNCHANGED <<sinceDate, items, cur, visited, reqs, abort, result, filtered,
                 output, dateVars, filtVars>>

\* lines 174-177: the URL does not parse, Visit returns the error and the
\* callback panics
DetailVisitInvalid ==
  /\ pc = "visit"
  /\ cur.EntryURL \notin DOMAIN RequestURLs
  /\ Panic("error while collecting details: invalid URL")
  /\ UNCHANGED <<sinceDate, items, cur, news, visited, reqs, result, filtered,
                 output, dateVars, filtVars>>

\* lines 174-177: the collector has visited the URL before, Visit returns
\* an error and the callback panics
DetailVisitAgain ==
  /\ pc = "visit"
  /\ cur.EntryURL \in DOMAIN RequestURLs
  /\ RequestURLs[cur.EntryURL] \in visited
  /\ Panic("error while collecting details: already visited")
  /\ UNCHANGED <<sinceDate, items, cur, news, visited, reqs, result, filtered,
                 output, dateVars, filtVars>>

\* line 174: the request is issued
DetailVisit ==
  /\ pc = "visit"
  /\ cur.EntryURL \in DOMAIN RequestURLs
  /\ RequestURLs[cur.EntryURL] \notin visited
  /\ visited' = visited \cup {RequestURLs[cur.EntryURL]}
  /\ reqs' = (cur.EntryURL :> [NewRequest EXCEPT !.url = RequestURLs[cur.EntryURL]])
               @@ reqs
  /\ pc' = IF Async THEN "item" ELSE "blocked"
  /\ UNCHANGED <<sinceDate, items, cur, news, abort, result, filtered, output,
                 dateVars, filtVars>>

\* the detail fetch fails silently: the request ends with no attachment
DetailFetchFailsIgnored ==
  \E u \in DOMAIN reqs :
    /\ Alive /\ reqs[u].st = "fetching"
    /\ reqs' = [reqs EXCEPT ![u].st = "failed"]
    /\ pc' = IF pc = "blocked" THEN "item" ELSE pc
    /\ UNCHANGED <<sinceDate, items, cur, news, visited, abort, result,
                   filtered, output, dateVars, filtVars>>

\* lines 174-177: the detail fetch fails, Visit returns the error and the
\* callback panics
DetailFetchFails ==
  \E u \in DOMAIN reqs :
    /\ Alive /\ reqs[u].st = "fetching"
    /\ reqs' = [reqs EXCEPT ![u].st = "failed"]
    /\ Panic("error while collecting details: fetch failed")
    /\ UNCHANGED <<sinceDate, items, cur, news, visited, result, filtered,
                   output, dateVars, filtVars>>

\* the detail page arrives, under the URL of the request or, after a
\* redirect, under another one (a redirect the collector refuses is a
\* failed fetch)
DetailFetchOK ==
  \E u \in DOMAIN reqs, pg \in Pages :
    /\ Alive /\ reqs[u].st = "fetching"
    /\ \E final \in FinalURLs(u) :
         reqs' = [reqs EXCEPT ![u] = AtCard([@ EXCEPT !.page = pg, !.url = final], 1)]
    /\ UNCHANGED <<pc, sinceDate, items, cur, news, visited, abort, result,
                   filtered, output, dateVars, filtVars>>

\* lines 125-128 for one .c-card: the entry is looked up under
\* e.Request.URL.String()
DetailLookup ==
  \E u \in DOMAIN reqs :
    /\ Alive /\ reqs[u].st = "lookup"
    /\ IF reqs[u].url \in DOMAIN news
       THEN /\ reqs' = [reqs EXCEPT ![u] =
                          IF Len(CardsOf(@.page)[@.card]) = 0
                          THEN AtCard(@, @.card + 1)
                          ELSE [@ EXCEPT !.st = "append"]]
            /\ UNCHANGED <<pc, abort>>
       ELSE /\ Panic("news entry not found")
            /\ reqs' = [reqs EXCEPT ![u].st = "notfound"]
    /\ UNCHANGED <<sinceDate, items, cur, news, visited, result, filtered,
                   output, dateVars, filtVars>>

\* lines 131-136 for one .c-files-wrapper of the .c-card: the attachment
\* goes to the entry that the lookup found
DetailAppend ==
  \E u \in DOMAIN reqs :
    /\ Alive /\ reqs[u].st = "append"
    /\ LET r == reqs[u]
           ws == CardsOf(r.page)[r.card]
       IN  /\ news' = [news EXCEPT ![r.url].Attachments =
                         AppendAttachment(@, AttachmentOf(r.url, ws[r.pos]))]
           /\ reqs' = [reqs EXCEPT ![u] =
                         IF r.pos = Len(ws) THEN AtCard(r, r.card + 1)
                         ELSE [r EXCEPT !.pos = r.pos + 1]]
    /\ UNCHANGED <<pc, sinceDate, items, cur, visited, abort, result, filtered,
                   output, dateVars, filtVars>>

\* lines 174-175: Visit returns nil
DetailReturn ==
  \E u \in DOMAIN reqs :
    /\ Alive /\ ~reqs[u].returned /\ reqs[u].st # "failed"
    /\ CallbacksDone(reqs[u])
    /\ reqs' = [reqs EXCEPT ![u].returned = TRUE]
    /\ pc' = IF pc = "blocked" THEN "item" ELSE pc
    /\ UNCHANGED <<sinceDate, items, cur, news, visited, abort, result,
                   filtered, output, dateVars, filtVars>>

\* the listing has no further item: the callback of line 145 ends and the
\* Visit of line 181 returns nil
ListingDone ==
  /\ pc = "item"
  /\ pc' = "wait"
  /\ UNCHANGED <<sinceDate, items, cur, news, visited, reqs, abort, result,
                 filtered, output, dateVars, filtVars>>

\* the orders in which maps.Values may list the keys
Orders(S) == {f \in [1..Cardinality(S) -> S] :
                \A i, j \in 1..Cardinality(S) : f[i] = f[j] => i = j}

\* lines 186-189: both Wait calls return and the values of the map are
\* returned, in an order the map decides
WaitAndReturn ==
  /\ pc = "wait"
  /\ \A u \in DOMAIN reqs : reqs[u].returned \/ reqs[u].st = "failed"
  /\ \E ord \in Orders(DOMAIN news) :
       result' = [i \in 1..Cardinality(DOMAIN news) |-> news[ord[i]]]
  /\ pc' = "returned"
  /\ UNCHANGED <<sinceDate, items, cur, news, visited, reqs, abort, filtered,
                 output, dateVars, filtVars>>

\* line 203: news.SinceIncluding(sinceDate)
MainFilter ==
  /\ pc = "returned"
  /\ LET r == SinceIncluding(result, sinceDate)
     IN  IF r.panic
         THEN Panic("nil pointer dereference") /\ filtered' = filtered
         ELSE pc' = "filtered" /\ filtered' = r.news /\ abort' = abort
  /\ UNCHANGED <<sinceDate, items, cur, news, visited, reqs, result, output,
                 dateVars, filtVars>>

\* line 203: fmt.Println, and main returns
MainPrint ==
  /\ pc = "filtered"
  /\ output' = Println(filtered)
  /\ pc' = "exit"
  /\ UNCHANGED <<sinceDate, items, cur, news, visited, reqs, abort, result,
                 filtered, dateVars, filtVars>>

Next ==
  \/ ListingFetchFails \/ ListingFetchOK
  \/ ItemParse \/ ItemInsert \/ DetailVisitInvalid \/ DetailVisitAgain
  \/ DetailVisit
  \/ DetailFetchFails \/ DetailFetchOK \/ DetailLookup \/ DetailAppend
  \/ DetailReturn \/ ListingDone \/ WaitAndReturn \/ MainFilter \/ MainPrint

Spec == Init /\ [][Next]_vars

(***************************************************************************)
(* Properties of the scrape pipeline (under Spec).                         *)
(***************************************************************************)
\* ScrapeNewsEntries has returned its entries to main (line 198)
ScrapeReturned ==
  pc \in {"returned", "filtered", "exit"} \/ abort = "nil pointer dereference"
\* a detail callback is at its lookup or at an append
InCallback(u) == reqs[u].st \in {"lookup", "append"}
FetchFailed == \E u \in DOMAIN reqs : reqs[u].st = "failed"

\* C1: once ScrapeNewsEntries has returned, the listing request and every
\* detail request have completed, and the entries are what was returned:
\* no callback appends an attachment after the return.
C1_FetchesCompleteBeforeFilter ==
  ScrapeReturned =>
    /\ \A u \in DOMAIN reqs : reqs[u].st = "done" /\ reqs[u].returned
    /\ \A k \in 1..Len(result) : result[k] = news[result[k].EntryURL]

C1_Witness ==
  /\ pc = "exit"
  /\ Len(filtered) = 2
  /\ \E k \in 1..Len(filtered) : Len(filtered[k].Attachments) = 2

\* a listing item with two well-formed date fields
ItemOK(it) == Len(it.dates) = 2 /\ ParseItem(it).panic = ""
SameURL(i, j) == i < j /\ items[i].href = items[j].href

\* C3 as claimed: when two items of the listing (otherwise well formed, no
\* fetch failing) resolve to the same detail URL, the run completes with
\* exactly one entry for that URL, the one built from the later item.
C3_DuplicateCollapses ==
  ( /\ pc \in {"panic", "exit"}
    /\ \A i \in 1..Len(items) : items[i].href # <<>>
    /\ \E i, j \in 1..Len(items) : SameURL(i, j)
    /\ \A i \in 1..Len(items) : ItemOK(items[i])
    /\ ~FetchFailed /\ abort # "listing fetch failed" )
  => /\ pc = "exit"
     /\ \A i, j \in 1..Len(items) :
          (SameURL(i, j) /\ \A l \in (j + 1)..Len(items) : ~SameURL(j, l)) =>
            /\ Cardinality({k \in 1..Len(result) :
                 result[k].EntryURL = EntryURLOf(items[j].href)}) = 1
            /\ \A k \in 1..Len(result) :
                 result[k].EntryURL = EntryURLOf(items[j].href)
                 => [result[k] EXCEPT !.Attachments = <<>>]
                      = ParseItem(items[j]).entry

\* C4: a failed listing fetch or a failed detail fetch ends the process by
\* a panic; nothing is returned, filtered or printed, whatever the detail
\* fetches before it brought.
C4_FailedFetchAborts ==
  (abort = "listing fetch failed" \/ FetchFailed) =>
    /\ pc = "panic"
    /\ result = <<>> /\ filtered = <<>> /\ output = <<>>

C4_Witness ==
  /\ pc = "panic"
  /\ \E u, v \in DOMAIN reqs :
       /\ reqs[u].st = "failed"
       /\ reqs[v].st = "done" /\ Len(news[v].Attachments) > 0

\* C5 as claimed: an item with a number of date fields other than two
\* aborts the run; no entry made from it is returned or printed.
C5_WrongDateCountAborts ==
  \A i \in 1..Len(items) :
    (Len(items[i].dates) # 2 /\ items[i].href # <<>>) =>
      /\ pc # "exit"
      /\ \A k \in 1..Len(result) :
           result[k].EntryURL # EntryURLOf(items[i].href)

\* every .c-files-wrapper of the page, in document order
PageAttachments(u, pg) == [k \in 1..pg.n |-> AttachmentOf(u, k)]
RECURSIVE CardAttachmentsFrom(_, _, _)
CardAttachmentsFrom(u, cards, c) ==
  IF c > Len(cards) THEN <<>>
  ELSE [i \in 1..Len(cards[c]) |-> AttachmentOf(u, cards[c][i])]
         \o CardAttachmentsFrom(u, cards, c + 1)
\* for each .c-card of the page in document order, the wrappers below it
CardAttachments(u, pg) == CardAttachmentsFrom(u, CardsOf(pg), 1)

\* C8 as claimed: after the scrape (of a listing of well-formed items) an
\* entry's attachments are the .c-files-wrapper nodes of its detail page in
\* document order, each once.
C8_AttachmentsAreThePage ==
  (ScrapeReturned /\ \A i \in 1..Len(items) : ItemOK(items[i])) =>
    \A k \in 1..Len(result) :
      result[k].Attachments
        = PageAttachments(result[k].EntryURL, reqs[result[k].EntryURL].page)

\* the detail request of the i-th item of the listing
RequestOf(i) == reqs[EntryURLOf(items[i].href)]
RECURSIVE ArrivedUnder(_, _)
\* The attachments of the pages that arrived under url, for the detail
\* requests of the items from the i-th on, in the order of the requests.
ArrivedUnder(url, i) ==
  IF i > Len(items) THEN <<>>
  ELSE (IF RequestOf(i).url = url
        THEN CardAttachments(url, RequestOf(i).page) ELSE <<>>)
         \o ArrivedUnder(url, i + 1)
\* the pages that arrived under url are the one of the request for url
OwnPageOnly(url) == \A v \in DOMAIN reqs : (reqs[v].url = url) <=> (v = url)

\* C8 as amended: after the scrape an entry's attachments are, for each
\* detail page that arrived under the entry's URL, in the order of the
\* requests, and for each .c-card element of that page in document order,
\* the .c-files-wrapper nodes below that element in document order.  For an
\* entry under whose URL its own detail page arrived and no other, these
\* are the wrappers below the .c-card elements of its page, and on a page
\* whose wrappers all lie in its single .c-card they are the page's
\* wrappers, each once.
C8_AttachmentsAreTheCards ==
  ScrapeReturned =>
    \A k \in 1..Len(result) :
      LET u == result[k].EntryURL
      IN  /\ result[k].Attachments = ArrivedUnder(u, 1)
          /\ OwnPageOnly(u) =>
               /\ result[k].Attachments = CardAttachments(u, reqs[u].page)
               /\ reqs[u].page.layout = "one"
                  => result[k].Attachments = PageAttachments(u, reqs[u].page)

C8_Witness ==
  /\ pc = "exit"
  /\ Len(result) = 2
  /\ \E k \in 1..Len(result) :
       LET u == result[k].EntryURL
       IN  /\ OwnPageOnly(u)
           /\ reqs[u].page = [n |-> 3, layout |-> "one"]
           /\ result[k].Attachments
                = <<AttachmentOf(u, 1), AttachmentOf(u, 2), AttachmentOf(u, 3)>>

\* C9: the map is never used by two activities at once: the listing pass
\* is not at its insertion while a detail callback is at its lookup or an
\* append, and no two detail callbacks are there together.
C9_MapNeverShared ==
  /\ pc = "insert" => \A u \in DOMAIN reqs : ~InCallback(u)
  /\ \A u, v \in DOMAIN reqs : (InCallback(u) /\ InCallback(v)) => u = v

C9_Witness ==
  /\ pc = "blocked" /\ Len(items) = 2
  /\ \E u, v \in DOMAIN reqs :
       u # v /\ reqs[u].st = "done" /\ reqs[v].st = "append" /\ reqs[v].pos = 2

\* C10: a detail request is issued only for a URL that has its entry in
\* the map, so a callback that runs for the URL its request was made with
\* finds the entry at its lookup and does not reach the "news entry not
\* found" panic.
C10_RequestHasEntry ==
  \A u \in DOMAIN reqs :
    /\ u \in DOMAIN news
    /\ reqs[u].url = u => reqs[u].st # "notfound"

C10_Witness ==
  /\ Alive
  /\ \E u \in DOMAIN reqs :
       /\ reqs[u].url = u
       /\ reqs[u].st = "lookup" /\ reqs[u].card = 2
       /\ Len(news[u].Attachments) = 2

(***************************************************************************)
(* Properties of StringDateToTime and the date layout (under SpecDate).    *)
(***************************************************************************)
DaysIn(m, y) == IF m = 2 THEN (IF isLeap(y) THEN 29 ELSE 28)
                ELSE IF m \in {4, 6, 9, 11} THEN 30 ELSE 31

\* the text after the weekday name and the space of "Mon 02.01.2006"
DMYOf(fmt) == SubSeq(fmt, 3, Len(fmt))
ExpectedDMY(src) == ZeroPad(Itoa(src.d), 2) \o <<".">> \o ZeroPad(Itoa(src.m), 2)
                      \o <<".">> \o ZeroPad(Itoa(src.y), 4)
RoundTrips ==
  /\ ~dRes.err
  /\ dpc = "formatted"
  /\ absDate(dRes.t) = [year |-> dSrc.y, month |-> dSrc.m, day |-> dSrc.d]
  /\ DMYOf(dFmt) = ExpectedDMY(dSrc)

\* C6 as claimed: every "D. M. YYYY" with D in 1..31 and M in 1..12, once
\* parsed and formatted, gives back the zero-padded D, M and YYYY.
C6_RoundTripAnyDay ==
  (dpc = "formatted" /\ dSrc # NoSrc) => RoundTrips

\* C6 as amended: the same, for a day D that exists in month M of the year
\* (D <= the number of days of that month); parsing such a text succeeds.
C6_RoundTripCalendarDay ==
  /\ (dpc = "parsed" /\ dSrc # NoSrc) => ~dRes.err
  /\ (dpc = "formatted" /\ dSrc # NoSrc /\ dSrc.d <= DaysIn(dSrc.m, dSrc.y))
     => RoundTrips

C6_Witness ==
  /\ dpc = "formatted"
  /\ dSrc = [d |-> 29, m |-> 2, y |-> 2024]
  /\ dFmt = <<"Thu", " ", "2", "9", ".", "0", "2", ".", "2", "0", "2", "4">>

\* an optional sign followed by one or more decimal digits
IsIntegerText(s) ==
  \E k \in 0..1 :
    /\ Len(s) > k
    /\ k = 1 => s[1] \in {"+", "-"}
    /\ \A i \in (k + 1)..Len(s) : s[i] \in Digits

Malformed(text) ==
  LET parts == Split(text, ".")
  IN  \/ Len(parts) # 3
      \/ \E i \in 1..Len(parts) : ~IsIntegerText(TrimSpace(parts[i]))

\* C7: a text that does not split on "." into exactly three components, or
\* has a component that is no integer once trimmed, is rejected with an
\* error and no date; so are "12/1/2021", "1. 2021" and "a. 1. 2021".
C7_MalformedRejected ==
  dpc # "in" =>
    /\ Malformed(dIn) => (dRes.err /\ dRes.t = NilTime /\ dpc = "parsed")
    /\ dIn \in NamedTexts => (dRes.err /\ dRes.t = NilTime)

C7_Witness ==
  /\ dpc = "parsed"
  /\ dIn = <<"a", ".", " ", "1", ".", " ", "2", "0", "2", "1">>
  /\ dRes = [err |-> TRUE, t |-> NilTime]

(***************************************************************************)
(* Properties of News.SinceIncluding (under SpecFilter).                   *)
(***************************************************************************)
KeptIdx == {i \in 1..Len(fIn0) : fIn0[i].PublishedOn >= fCut}
NthKept(k) == CHOOSE i \in KeptIdx : Cardinality({j \in KeptIdx : j < i}) = k - 1
AllDated == \A i \in 1..Len(fIn0) : fIn0[i].PublishedOn # NilTime

\* C2: SinceIncluding returns exactly the entries published on the cutoff or
\* later, in the order of the input, and leaves the input as it was.
C2_SinceIncludingExact ==
  (fpc # "in" /\ AllDated) =>
    /\ fpc = "done" /\ ~fOut.panic
    /\ Len(fOut.news) = Cardinality(KeptIdx)
    /\ \A k \in 1..Len(fOut.news) : fOut.news[k] = fIn0[NthKept(k)]
    /\ fIn = fIn0

\* the entries of 2024-01-14, 2024-01-15 and 2024-02-01 with the cutoff
\* 2024-01-15: the one of the day before is dropped, the one on it is kept
C2_Witness ==
  /\ fpc = "done" /\ fCut = Date(2024, 1, 15)
  /\ Len(fIn0) = 3
  /\ fIn0[1].PublishedOn = Date(2024, 1, 14)
  /\ fIn0[2].PublishedOn = Date(2024, 1, 15)
  /\ fIn0[3].PublishedOn = Date(2024, 2, 1)
  /\ fOut.news = <<fIn0[2], fIn0[3]>>

====
